---- MODULE Spec2Model ----
(***************************************************************************)
(* Dream Background Remover: the asynchronous remote-inference pipeline.   *)
(*                                                                         *)
(* dialog_threads.py  DreamBackgroundRemoverThreads (worker orchestrator)  *)
(* api.py             ReplicateAPI (remote inference client)               *)
(* dialog_events.py   the on_error / on_success callbacks of the dialog    *)
(* integrator.py      export and result reconciliation                     *)
(*                                                                         *)
(* Two threads: the interactive (UI) thread, which runs the public         *)
(* operations and every callback posted with GLib.idle_add/timeout_add,    *)
(* and one worker thread per accepted request.  A UI-thread handler runs   *)
(* to completion before the next one is dispatched; a worker step          *)
(* interleaves freely with them.                                           *)
(*                                                                         *)
(* settings.py        load_settings / store_settings                       *)
(*                                                                         *)
(* Four specifications:                                                    *)
(*   Spec          the program as shipped;                                 *)
(*   SpecPipeline  the same, the client call of line 87 also allowed to    *)
(*                 bind, which reaches the code after it;                  *)
(*   SpecApi       remove_background called on its own;                    *)
(*   SpecSettings  store_settings and load_settings called on their own.   *)
(***************************************************************************)
EXTENDS Integers, Sequences, FiniteSets, TLC

\* Bound on the number of start calls that get past the guard of line 48:
\* requests accepted, and calls refused for want of a drawable.
MaxRequests == 2

\* Bound on the number of chunks a remote output stream yields.
MaxChunks == 2

VARIABLES
    processing,         \* self._processing
    cancel_requested,   \* self._cancel_requested
    has_drawable,       \* self.drawable is not None
    replicate_available,\* api.REPLICATE_AVAILABLE
    ui,                 \* the widgets the orchestrator touches
    nreq,               \* number of requests accepted so far
    worker,             \* worker[r]: the thread spawned for request r
    queue,              \* callbacks posted with GLib.idle_add, in post order
    timer,              \* callbacks pending from GLib.timeout_add
    api,                \* the running (or last) call of remove_background
    obs,                \* what was observed of the latest accepted request
    last_op,            \* the kind of operation that produced this state
    config,             \* the settings file on disk
    settings,           \* the last store_settings / load_settings call
    proc,               \* the run of the plug-in procedure
    layer               \* the last call of _truncate_layer_name

vars == <<processing, cancel_requested, has_drawable, replicate_available, ui,
          nreq, worker, queue, timer, api, obs, last_op, config, settings,
          proc, layer>>

Requests == 1..MaxRequests

-----------------------------------------------------------------------------
(* Values *)

ApiKeys == {"", "   ", "r8_key"}
Modes == {"layer", "file"}
NoPct == -1

\* A decoded image; NoPixbuf stands for None.
NoPixbuf == [valid |-> FALSE, pixels |-> <<>>]

\* not api_key or not api_key.strip()
IsBlank(s) == s \in {"", "   "}

MsgNoLayer == "No layer available for background removal"
MsgPreparing == "Preparing image for upload..."
MsgCancelling == "Cancelling..."
MsgCancelled == "Operation cancelled"
MsgNoImageData == "No image data received from API"
MsgNotInstalled == "Replicate package not installed. Please run: pip install replicate"
MsgKeyRequired == "API key is required"
MsgMissingModelName ==
    "ReplicateAPI.remove_background() missing 1 required positional argument: 'model_name'"
MsgCreatingFile == "Creating new image file..."
MsgCreatingLayer == "Creating new layer..."
MsgCreateFileFailed == "Failed to create new image file"
MsgFileCreated == "New image created with background removed!"
MsgResultNoShowErrorState ==
    "Error processing result: 'DreamBackgroundRemoverUI' object has no attribute 'show_error_state'"
MsgResultNoCreateLayer ==
    "Error processing result: module 'integrator' has no attribute 'create_background_removed_layer'"

-----------------------------------------------------------------------------
(* Settings persistence (settings.py) *)

SettingKeys == {"api_key", "mode", "api_key_visible", "model"}

\* The keys of the model table.
AVAILABLE_MODELS == {"851-labs", "bria"}

DEFAULT_MODEL == "851-labs"
DEFAULT_MODE == "layer"
DEFAULT_API_KEY_VISIBLE == FALSE
DEFAULT_SETTINGS == [api_key |-> "", mode |-> DEFAULT_MODE,
                     api_key_visible |-> DEFAULT_API_KEY_VISIBLE,
                     model |-> DEFAULT_MODEL]

\* json.dump of a str and of a bool, and json.load of the token written.
JsonDumpStr(v) == [t |-> "string", v |-> v]
JsonDumpBool(v) == [t |-> "literal", v |-> IF v THEN "true" ELSE "false"]
JsonLoad(tok) == IF tok.t = "literal" THEN tok.v = "true" ELSE tok.v

\* The JSON object json.dump writes for a settings dict.
JsonDump(d) ==
    [api_key |-> JsonDumpStr(d.api_key), mode |-> JsonDumpStr(d.mode),
     api_key_visible |-> JsonDumpBool(d.api_key_visible),
     model |-> JsonDumpStr(d.model)]

\* The settings file: absent, not JSON, or a JSON object holding some keys
\* (val[k] is read only for k in keys).
DefaultTokens == JsonDump(DEFAULT_SETTINGS)
AbsentFile == [kind |-> "absent", keys |-> {}, val |-> DefaultTokens]
InvalidFile == [kind |-> "invalid", keys |-> {}, val |-> DefaultTokens]
ObjectFile(keys, d) ==
    [kind |-> "object", keys |-> keys,
     val |-> [k \in SettingKeys |->
                IF k \in keys THEN JsonDump(d)[k] ELSE DefaultTokens[k]]]

\* A store that writes the model it was given.
KeepModel(model) == model

\* lines 112-115 of store_settings.
NormalizeModel(model) ==
    IF model \notin AVAILABLE_MODELS THEN DEFAULT_MODEL ELSE model

\* store_settings raises ValueError for a mode that is none of the two.
StoreRaises(mode) == mode \notin {"layer", "file"}

\* store_settings: the file it leaves.  The write is taken to succeed.
StoreSettings(cfg, api_key, mode, api_key_visible, model) ==
    IF StoreRaises(mode) THEN cfg
    ELSE ObjectFile(SettingKeys,
                    [api_key |-> api_key, mode |-> mode,
                     api_key_visible |-> api_key_visible,
                     model |-> NormalizeModel(model)])

\* load_settings: a missing or unreadable file gives the defaults; a key
\* the object lacks is filled with its default; what is there is returned
\* as found.
LoadSettings(cfg) ==
    IF cfg.kind # "object" THEN DEFAULT_SETTINGS
    ELSE [k \in SettingKeys |->
            IF k \in cfg.keys THEN JsonLoad(cfg.val[k])
            ELSE DEFAULT_SETTINGS[k]]

NoArgs == [api_key |-> "", mode |-> DEFAULT_MODE, api_key_visible |-> FALSE,
           model |-> DEFAULT_MODEL]

\* op: the last call; args: the arguments of the store that wrote the file
\* on disk; fresh: the file is as that store left it; loaded: what the last
\* load returned, when a load was the last call that did not raise.
NoSettings == [op |-> "none", args |-> NoArgs, fresh |-> FALSE,
               loaded |-> DEFAULT_SETTINGS,
               dialog |-> NoArgs]   \* the dialog's fields at the last click

AfterStore(st, api_key, mode, api_key_visible, model) ==
    IF StoreRaises(mode) THEN [st EXCEPT !.op = "store_raised"]
    ELSE [st EXCEPT !.op = "store", !.fresh = TRUE,
                    !.args = [api_key |-> api_key, mode |-> mode,
                              api_key_visible |-> api_key_visible,
                              model |-> model],
                    !.loaded = DEFAULT_SETTINGS]

-----------------------------------------------------------------------------
(* Widgets: dialog_gtk.py builds them, dialog_threads.py drives them *)

Controls == {"remove_background_btn", "api_key_entry", "layer_mode_radio",
             "file_mode_radio", "toggle_visibility_btn", "model_combo",
             "cancel_btn"}

\* The controls _disable_ui and _enable_ui switch.
ThreadControls == {"remove_background_btn", "api_key_entry",
                   "layer_mode_radio", "file_mode_radio",
                   "toggle_visibility_btn"}

InitUI == [sens |-> [c \in Controls |-> TRUE],
           status |-> "Ready",
           progress_visible |-> FALSE,
           fraction |-> 0]

DisableUI(u) ==
    [u EXCEPT !.sens = [c \in Controls |->
                          IF c \in ThreadControls THEN FALSE
                          ELSE IF c = "cancel_btn" THEN TRUE
                          ELSE u.sens[c]],
              !.progress_visible = TRUE,
              !.fraction = 0]

EnableUI(u) ==
    [u EXCEPT !.sens = [c \in Controls |->
                          IF c \in ThreadControls THEN TRUE ELSE u.sens[c]],
              !.progress_visible = FALSE]

UpdateStatus(u, message, percentage) ==
    [u EXCEPT !.status = message,
              !.fraction = IF percentage # NoPct THEN percentage ELSE @]

-----------------------------------------------------------------------------
(* The dialog's callbacks (dialog_events.py) *)

\* show_error calls self.ui.show_error_state, which DreamBackgroundRemoverUI
\* does not define: the call raises AttributeError before any dialog is built.
ShowErrorRaises == TRUE

MsgPreparingRemoval == "Preparing image for background removal..."

\* The controls set_processing_state switches (dialog_gtk.py 221-236).
DialogControls == {"api_key_entry", "toggle_visibility_btn",
                   "layer_mode_radio", "file_mode_radio", "model_combo",
                   "remove_background_btn"}

SetProcessingState(u, p) ==
    [u EXCEPT !.sens = [c \in Controls |->
                          IF c \in DialogControls THEN ~p ELSE u.sens[c]]]

\* api_key_entry.get_text().strip()
Strip(text) == IF IsBlank(text) THEN "" ELSE text

-----------------------------------------------------------------------------
(* Observations of the latest accepted request (of the calls that belong   *)
(* to no request, while none was accepted).  An accepted start clears them. *)

NoObs == [key |-> "", mode |-> "layer",
          raised |-> "",        \* message of the exception the worker caught
          client |-> "pending", \* what remove_background returned
          posted |-> "none",    \* the terminal callback the worker posted
          recon |-> "pending",  \* what the reconciliation did
          n_error |-> 0,        \* invocations of on_error
          n_success |-> 0,      \* invocations of on_success
          n_cancelled |-> 0,    \* runs of _handle_cancelled
          err_msg |-> "",       \* the last message given to on_error
          cancel_seen |-> FALSE,\* cancel_processing ran while Processing
          late_error |-> FALSE, \* on_error ran after that cancel
          from_dialog |-> FALSE,\* started by on_remove_background
          cancel_early |-> FALSE,\* that cancel ran before the result handler
          cancel_before |-> FALSE,\* _cancel_requested was set at the start
          n_shown |-> 0]        \* error messages presented to the user

-----------------------------------------------------------------------------
(* The state the UI thread owns, as one record the handlers transform *)

St == [processing |-> processing, cancel_requested |-> cancel_requested,
       ui |-> ui, timer |-> timer, obs |-> obs]

SetSt(s) ==
    /\ processing' = s.processing
    /\ cancel_requested' = s.cancel_requested
    /\ ui' = s.ui
    /\ timer' = s.timer
    /\ obs' = s.obs

\* show_error, the on_error callback: the message is presented in a modal
\* dialog only when the call of line 155 returns.
ShowError(s, message) ==
    IF ShowErrorRaises THEN s ELSE [s EXCEPT !.obs.n_shown = @ + 1]

\* An error handler that does not call on_error.
HandleErrorSilent(s, error_message) ==
    [s EXCEPT !.processing = FALSE,
              !.cancel_requested = FALSE,
              !.ui = EnableUI(@)]

\* _handle_error: on_error is registered by the dialog (dialog_events.py 24-27).
HandleError(s, error_message) ==
    ShowError([s EXCEPT !.processing = FALSE,
                        !.cancel_requested = FALSE,
                        !.ui = EnableUI(@),
                        !.obs.n_error = @ + 1,
                        !.obs.err_msg = error_message,
                        !.obs.late_error = @ \/ s.obs.cancel_seen],
              error_message)

HandleCancelled(s) ==
    [s EXCEPT !.processing = FALSE,
              !.cancel_requested = FALSE,
              !.ui = UpdateStatus(EnableUI(@), MsgCancelled, NoPct),
              !.obs.n_cancelled = @ + 1]

\* success_timeout, the closure of _schedule_success_callback.
SuccessTimeout(s, success_message) ==
    [s EXCEPT !.processing = FALSE,
              !.cancel_requested = FALSE,
              !.ui = EnableUI(@),
              !.obs.n_success = @ + 1]

ScheduleSuccessCallback(s, success_message) ==
    [s EXCEPT !.timer = Append(@, [msg |-> success_message])]

\* _handle_error called inside the try block of _handle_background_removed:
\* when on_error raises, the except clause of line 147 calls it again.
HandleErrorInTry(s, error_message) ==
    IF ShowErrorRaises
    THEN HandleError(HandleError(s, error_message), MsgResultNoShowErrorState)
    ELSE HandleError(s, error_message)

\* A result handler that does not test what the reconciliation returned.
HandleRemovedIgnoresFailure(s, pixbuf, mode, created) ==
    IF mode = "file"
    THEN ScheduleSuccessCallback(
             [s EXCEPT !.ui = UpdateStatus(@, MsgFileCreated, NoPct),
                       !.obs.recon = IF created THEN "image" ELSE "none"],
             MsgFileCreated)
    ELSE HandleError([s EXCEPT !.obs.recon = "raise"], MsgResultNoCreateLayer)

\* lines 113-145 of _handle_background_removed, past the cancellation check.
HandleRemovedNoCheck(s, pixbuf, mode, created) ==
    IF mode = "file"
    THEN LET s1 == [s EXCEPT !.ui = UpdateStatus(@, MsgCreatingFile, NoPct)]
         IN IF ~created
            THEN HandleErrorInTry([s1 EXCEPT !.obs.recon = "none"],
                                  MsgCreateFileFailed)
            ELSE ScheduleSuccessCallback(
                     [s1 EXCEPT !.ui = UpdateStatus(@, MsgFileCreated, NoPct),
                                !.obs.recon = "image"],
                     MsgFileCreated)
    ELSE \* integrator defines no create_background_removed_layer: the
         \* attribute lookup raises and the except clause reports it.
         LET s1 == [s EXCEPT !.ui = UpdateStatus(@, MsgCreatingLayer, NoPct),
                             !.obs.recon = "raise"]
         IN HandleError(s1, MsgResultNoCreateLayer)

\* A result handler without the cancellation check of line 108.
HandleRemovedAfterCancel(s, pixbuf, mode, created) ==
    HandleRemovedNoCheck(s, pixbuf, mode, created)

\* _handle_background_removed; created: whether
\* integrator.create_new_image_with_layer returned an image.
HandleBackgroundRemoved(s, pixbuf, mode, created) ==
    IF s.cancel_requested
    THEN HandleCancelled([s EXCEPT !.obs.recon = "skipped"])
    ELSE HandleRemovedNoCheck(s, pixbuf, mode, created)

-----------------------------------------------------------------------------
(* ReplicateAPI.remove_background (api.py) *)

\* The progress fractions, in tenths.
PROGRESS_PREPARE == 1
PROGRESS_UPLOAD == 3
PROGRESS_PROCESS == 7
PROGRESS_DOWNLOAD == 9
PROGRESS_COMPLETE == 10

MsgUploading == "Uploading image to Replicate..."
MsgProcessing == "Processing image..."
MsgDownloading == "Downloading result..."
MsgComplete == "Background removal complete!"
MsgNoDrawable == "No drawable provided"
MsgNoModel == "No model specified"
MsgExportFailed == "Failed to export image data"
MsgNoOutput == "No output received from API"
MsgNoImageInResponse == "No image data in API response"
MsgConvertFailed == "Failed to convert result to image"
MsgModelError == "Model error: prediction failed"
MsgModelErrorLogs == "Model error: prediction failed\nLogs: out of memory"
MsgReplicateError == "Replicate API error: 401 Unauthenticated"
MsgUnexpected == "Unexpected error: connection reset"
MsgJoinTypeError ==
    "Unexpected error: sequence item 0: expected a bytes-like object, int found"

ModelNames == {"", "bria/remove-background"}

\* Bytes: 1 stands for the signature an image file starts with.
Bytes == {0, 1}
Magic == 1
ChunkValues == {<<>>, <<0>>, <<1>>}

SeqsUpTo(S, n) == UNION {[1..k -> S] : k \in 0..n}

\* What client.run returns: None, a list of at most n byte chunks, a
\* stream (an iterator, a file output) yielding at most n byte chunks, or
\* one bytes object (kind "bytes", the payload being chunks[1]).
NoOutput == [kind |-> "none", chunks |-> <<>>]
OutputsUpTo(n) ==
    {NoOutput} \cup
    {[kind |-> k, chunks |-> c] :
        k \in {"list", "stream"}, c \in SeqsUpTo(ChunkValues, n)} \cup
    {[kind |-> "bytes", chunks |-> <<c>>] : c \in ChunkValues}
Outputs == OutputsUpTo(MaxChunks)

\* bool(output): None, the empty list and the empty bytes object are falsy,
\* a stream object never.
Truthy(output) ==
    \/ output.kind = "stream"
    \/ output.kind = "list" /\ output.chunks # <<>>
    \/ output.kind = "bytes" /\ output.chunks[1] # <<>>

RECURSIVE JoinReversed(_)
\* A join that puts each later chunk in front.
JoinReversed(chunks) ==
    IF chunks = <<>> THEN <<>> ELSE JoinReversed(Tail(chunks)) \o Head(chunks)

\* A test of line 137 that never finds the result empty.
EmptyResultNever(result_bytes) == FALSE

\* `if not result_bytes`, line 137.
EmptyResult(result_bytes) == result_bytes = <<>>

RECURSIVE Join(_)
\* b''.join(chunk for chunk in output)
Join(chunks) ==
    IF chunks = <<>> THEN <<>> ELSE Head(chunks) \o Join(Tail(chunks))

\* _bytes_to_pixbuf: the loader rejects bytes that are no image (None).
BytesToPixbuf(image_bytes) ==
    IF image_bytes # <<>> /\ Head(image_bytes) = Magic
    THEN [valid |-> TRUE, pixels |-> Tail(image_bytes)]
    ELSE NoPixbuf

IdleApi == [pc |-> "idle", r |-> 0, temp |-> "none", ntemp |-> 0,
            exp_temp |-> "none", cps |-> <<>>, steps |-> <<>>,
            out |-> NoOutput,
            pixbuf |-> NoPixbuf, err |-> "", false_at |-> 0,
            raised_at |-> 0,    \* the checkpoint whose callback raised
            exported |-> ""]    \* how export_drawable_to_bytes went

CheckpointPcs == <<"cp1", "cp2", "cp3", "cp4", "cp5">>
CheckpointOf(pc) == CHOOSE k \in 1..5 : CheckpointPcs[k] = pc
Fractions == <<PROGRESS_PREPARE, PROGRESS_UPLOAD, PROGRESS_PROCESS,
               PROGRESS_DOWNLOAD, PROGRESS_COMPLETE>>
CheckpointMsgs == <<MsgPreparing, MsgUploading, MsgProcessing,
                    MsgDownloading, MsgComplete>>
\* A call that goes from the third checkpoint straight to the download.
AfterCheckpointSkipsDownload == <<"export", "run", "join", "join", "ret">>

\* Where an accepted checkpoint continues.
AfterCheckpoint == <<"export", "run", "cp4", "join", "ret">>

\* A finally clause that leaves the staging file behind.
FinallyKeepsFile(a) == a

\* The finally clause, lines 168-173: the staging file is removed when
\* temp_path was set and the file is there.
Finally(a) ==
    IF a.temp = "exists" THEN [a EXCEPT !.temp = "removed"] ELSE a

\* A return (or a caught exception) inside the try block.
Return(a, pixbuf, error) ==
    Finally([a EXCEPT !.pc = "ret", !.pixbuf = pixbuf, !.err = error])

\* An except clause that lets the exceptions that are neither ModelError
\* nor ReplicateError through.
CaughtOnlyReplicate(e) == e \in {"model_error", "model_error_logs",
                                 "replicate_error"}

\* `except Exception`, line 164, around everything the try block does.
Caught(e) == TRUE

\* An exception e raised inside the try block: the matching except clause
\* returns (None, message); the finally clause runs either way.
Raise(a, e, message) ==
    IF Caught(e)
    THEN Return(a, NoPixbuf, message)
    ELSE Finally([a EXCEPT !.pc = "raised", !.pixbuf = NoPixbuf])

\* lines 84-90: the two argument checks precede the try block.
ApiEnter(r, drawable, model_name) ==
    LET a == [IdleApi EXCEPT !.r = r]
    IN IF ~drawable THEN [a EXCEPT !.pc = "ret", !.err = MsgNoDrawable]
       ELSE IF model_name = "" THEN [a EXCEPT !.pc = "ret", !.err = MsgNoModel]
       ELSE [a EXCEPT !.pc = "cp1"]

\* The checkpoint the call stands at; ok is what progress_callback returned.
\* The first four abort on False; the result of the last call (lines
\* 144-148) is not looked at.  The `if not output` test of line 127 follows
\* the third checkpoint.
ApiCheckpoint(a, ok) ==
    LET k == CheckpointOf(a.pc)
        a1 == [a EXCEPT !.cps = Append(@, Fractions[k]),
                        !.false_at = IF ~ok /\ @ = 0 THEN k ELSE @]
    IN IF k = 5 THEN Return(a1, a.pixbuf, "")
       ELSE IF ~ok THEN Return(a1, NoPixbuf, MsgCancelled)
       ELSE IF k = 3 /\ ~Truthy(a.out) THEN Return(a1, NoPixbuf, MsgNoOutput)
       ELSE [a1 EXCEPT !.pc = AfterCheckpoint[k]]

\* The callback of the checkpoint raises e: the first two checkpoints stand
\* under the outer except clause only, the last three also under the
\* clauses for ModelError and ReplicateError (lines 152-162).
CallbackRaises == {"replicate_error", "other"}
ApiCheckpointRaises(a, e) ==
    LET k == CheckpointOf(a.pc)
        a1 == [a EXCEPT !.cps = Append(@, Fractions[k]), !.raised_at = k]
    IN Raise(a1, e, IF k >= 3 /\ e = "replicate_error"
                    THEN MsgReplicateError
                    ELSE MsgUnexpected)

\* integrator.export_drawable_to_bytes: every failure inside is caught and
\* gives None; its own temporary file is removed in its finally clause.
ExportOutcomes == {"bytes", "no_image", "save_failed", "empty_file"}
ExportDrawableToBytes(a, outcome) ==
    [a EXCEPT !.steps = Append(@, "export"),
              !.exported = outcome,
              !.exp_temp = IF outcome = "no_image" THEN "none" ELSE "removed"]

\* An export whose failure is not looked at.
ApiExportGoesOn(a, outcome) ==
    [ExportDrawableToBytes(a, outcome) EXCEPT !.pc = "stage"]

\* lines 98-102.
ApiExport(a, outcome) ==
    LET a1 == ExportDrawableToBytes(a, outcome)
    IN IF outcome = "bytes" THEN [a1 EXCEPT !.pc = "stage"]
       ELSE Return(a1, NoPixbuf, MsgExportFailed)

\* lines 104-108: NamedTemporaryFile(delete=False), then the write.
StageOutcomes == {"written", "create_raises", "write_raises"}

\* A staging that creates a second file and forgets the first.
ApiStageTwice(a, outcome) ==
    [a EXCEPT !.steps = Append(@, "stage"), !.temp = "exists",
              !.ntemp = @ + 2, !.pc = "cp2"]

ApiStage(a, outcome) ==
    LET a1 == [a EXCEPT !.steps = Append(@, "stage")]
        a2 == [a1 EXCEPT !.temp = "exists", !.ntemp = @ + 1]
    IN CASE outcome = "written" -> [a2 EXCEPT !.pc = "cp2"]
         [] outcome = "create_raises" -> Raise(a1, "other", MsgUnexpected)
         [] outcome = "write_raises" -> Raise(a2, "other", MsgUnexpected)

\* lines 115-120 and the except clauses 152-166: client.run.
RunRaises == {"model_error", "model_error_logs", "replicate_error", "other"}
RaiseMsg(e) ==
    CASE e = "model_error" -> MsgModelError
      [] e = "model_error_logs" -> MsgModelErrorLogs
      [] e = "replicate_error" -> MsgReplicateError
      [] e = "other" -> MsgUnexpected
ApiRunReturns(a, output) ==
    [a EXCEPT !.steps = Append(@, "run"), !.out = output, !.pc = "cp3"]
ApiRunRaises(a, e) ==
    Raise([a EXCEPT !.steps = Append(@, "run")], e, RaiseMsg(e))

\* lines 135-142: collect the chunks, then decode.  Iterating a bytes
\* object yields integers, which b''.join refuses with a TypeError (a bytes
\* object that reaches line 135 is not empty).
ApiJoin(a) ==
    LET result_bytes == Join(a.out.chunks)
        a1 == [a EXCEPT !.steps = Append(@, "download")]
        a2 == [a1 EXCEPT !.steps = Append(@, "decode")]
        pixbuf == BytesToPixbuf(result_bytes)
    IN IF a.out.kind = "bytes"
       THEN Raise(a1, "other", MsgJoinTypeError)
       ELSE IF EmptyResult(result_bytes)
       THEN Return(a1, NoPixbuf, MsgNoImageInResponse)
       ELSE IF ~pixbuf.valid THEN Return(a2, NoPixbuf, MsgConvertFailed)
       ELSE [a2 EXCEPT !.pixbuf = pixbuf, !.pc = "cp5"]

\* Every way one step of the call other than a checkpoint can go, the
\* remote answering with one of outs.
ApiStepResults(a, outs) ==
    CASE a.pc = "export" -> {ApiExport(a, o) : o \in ExportOutcomes}
      [] a.pc = "stage" -> {ApiStage(a, o) : o \in StageOutcomes}
      [] a.pc = "run" -> {ApiRunReturns(a, o) : o \in outs} \cup
                         {ApiRunRaises(a, e) : e \in RunRaises}
      [] a.pc = "join" -> {ApiJoin(a)}
      [] OTHER -> {}

AtCheckpoint(a) == a.pc \in {"cp1", "cp2", "cp3", "cp4", "cp5"}

DialogVars == <<processing, cancel_requested, has_drawable,
                replicate_available, ui, nreq, worker, queue, timer, obs,
                config, settings, proc, layer>>

\* remove_background called directly, with any arguments.
DirectCall ==
    /\ api.pc \in {"idle", "ret", "raised"}
    /\ \E drawable \in BOOLEAN, model_name \in ModelNames :
          api' = ApiEnter(0, drawable, model_name)
    /\ last_op' = "api"
    /\ UNCHANGED DialogVars

\* A checkpoint of a direct call: the callback answers as it likes.
DirectCheckpoint ==
    /\ api.r = 0
    /\ AtCheckpoint(api)
    /\ \/ \E ok \in BOOLEAN : api' = ApiCheckpoint(api, ok)
       \/ \E e \in CallbackRaises : api' = ApiCheckpointRaises(api, e)
    /\ last_op' = "api"
    /\ UNCHANGED DialogVars

DirectStep ==
    /\ api.r = 0
    /\ api' \in ApiStepResults(api, Outputs)
    /\ last_op' = "api"
    /\ UNCHANGED DialogVars

-----------------------------------------------------------------------------
(* Worker threads *)

IdleWorker == [pc |-> "idle", key |-> "", mode |-> "layer", exc |-> "",
               pixbuf |-> NoPixbuf, err |-> ""]
\* A thread that ended: its locals are gone.
DoneWorker == [IdleWorker EXCEPT !.pc = "done"]

Item(h, r, msg, pct, pixbuf, mode) ==
    [h |-> h, r |-> r, msg |-> msg, pct |-> pct, pixbuf |-> pixbuf,
     mode |-> mode]

StatusItem(r, msg, pct) == Item("status", r, msg, pct, NoPixbuf, "layer")
CancelledItem(r) == Item("cancelled", r, "", NoPct, NoPixbuf, "layer")
ErrorItem(r, msg) == Item("error", r, msg, NoPct, NoPixbuf, "layer")
RemovedItem(r, pixbuf, mode) == Item("removed", r, "", NoPct, pixbuf, mode)

Alive(r) == worker[r].pc \notin {"idle", "done"}

UIVars == <<processing, cancel_requested, ui, timer>>
\* What neither the orchestrator nor a worker writes.
EnvVars == <<has_drawable, replicate_available, config, settings, proc,
             layer>>

\* A worker that reports once more after its terminal callback.
PostTerminalThenStatus(r, item) ==
    /\ queue' = Append(Append(queue, item),
                       StatusItem(r, MsgComplete, PROGRESS_COMPLETE))
    /\ worker' = [worker EXCEPT ![r] = DoneWorker]
    /\ obs' = [obs EXCEPT !.posted = item.h]

\* GLib.idle_add(item) as the last statement the worker executes.
PostTerminal(r, item) ==
    /\ queue' = Append(queue, item)
    /\ worker' = [worker EXCEPT ![r] = DoneWorker]
    /\ obs' = [obs EXCEPT !.posted = item.h]

\* A first check that consumes the request for cancellation it sees.
WorkerFirstCheckClears(r) ==
    /\ worker[r].pc = "L69"
    /\ IF cancel_requested
       THEN PostTerminal(r, CancelledItem(r))
       ELSE /\ worker' = [worker EXCEPT ![r].pc = "L73"]
            /\ UNCHANGED <<queue, obs>>
    /\ cancel_requested' = FALSE
    /\ last_op' = "step"
    /\ UNCHANGED <<processing, ui, timer, EnvVars, api, nreq>>

\* lines 69-71: the first cancellation check.
WorkerFirstCheck(r) ==
    /\ worker[r].pc = "L69"
    /\ IF cancel_requested
       THEN PostTerminal(r, CancelledItem(r))
       ELSE /\ worker' = [worker EXCEPT ![r].pc = "L73"]
            /\ UNCHANGED <<queue, obs>>
    /\ last_op' = "step"
    /\ UNCHANGED <<UIVars, EnvVars, api, nreq>>

\* A constructor that takes any key.
ApiInitErrorNoKeyCheck(api_key) ==
    IF ~replicate_available THEN MsgNotInstalled ELSE ""

\* ReplicateAPI.__init__: the message of the exception it raises, "" if none.
ApiInitError(api_key) ==
    IF ~replicate_available THEN MsgNotInstalled
    ELSE IF IsBlank(api_key) THEN MsgKeyRequired
    ELSE ""

\* line 73: api = ReplicateAPI(api_key).
WorkerConstruct(r) ==
    /\ worker[r].pc = "L73"
    /\ worker' = [worker EXCEPT
                    ![r].pc = IF ApiInitError(worker[r].key) = ""
                              THEN "L81" ELSE "L102",
                    ![r].exc = ApiInitError(worker[r].key)]
    /\ obs' = [obs EXCEPT !.raised = ApiInitError(worker[r].key)]
    /\ last_op' = "step"
    /\ UNCHANGED <<UIVars, EnvVars, api, nreq, queue>>

\* line 81: the first status update.
WorkerPostPreparing(r) ==
    /\ worker[r].pc = "L81"
    /\ queue' = Append(queue, StatusItem(r, MsgPreparing, NoPct))
    /\ worker' = [worker EXCEPT ![r].pc = "L83"]
    /\ last_op' = "step"
    /\ UNCHANGED <<UIVars, EnvVars, api, nreq, obs>>

\* lines 83-85: the second cancellation check.
WorkerSecondCheck(r) ==
    /\ worker[r].pc = "L83"
    /\ IF cancel_requested
       THEN PostTerminal(r, CancelledItem(r))
       ELSE /\ worker' = [worker EXCEPT ![r].pc = "L87"]
            /\ UNCHANGED <<queue, obs>>
    /\ last_op' = "step"
    /\ UNCHANGED <<UIVars, EnvVars, api, nreq>>

\* lines 87-90: api.remove_background(drawable=..., progress_callback=...)
\* passes no model_name, which the signature requires (api.py 55-62): the
\* call raises TypeError before the body of remove_background runs.
WorkerCallUnbound(r) ==
    /\ worker[r].pc = "L87"
    /\ worker' = [worker EXCEPT ![r].pc = "L102",
                                ![r].exc = MsgMissingModelName]
    /\ obs' = [obs EXCEPT !.raised = MsgMissingModelName,
                          !.client = "raised"]
    /\ last_op' = "step"
    /\ UNCHANGED <<UIVars, EnvVars, api, nreq, queue>>

\* lines 101-104: the except clause of the worker.  With cancellation
\* requested nothing is posted and the thread ends.
WorkerExcept(r) ==
    /\ worker[r].pc = "L102"
    /\ IF ~cancel_requested
       THEN PostTerminal(r, ErrorItem(r, worker[r].exc))
       ELSE /\ worker' = [worker EXCEPT ![r] = DoneWorker]
            /\ obs' = [obs EXCEPT !.posted = "nothing"]
            /\ UNCHANGED queue
    /\ last_op' = "step"
    /\ UNCHANGED <<UIVars, EnvVars, api, nreq>>

-----------------------------------------------------------------------------
(* Operations of the UI thread *)

\* A cancel that declares the request over at once, as cleanup() does.
CancelProcessingResets ==
    /\ cancel_requested' = TRUE
    /\ processing' = FALSE
    /\ ui' = UpdateStatus(ui, MsgCancelling, NoPct)
    /\ obs' = [obs EXCEPT !.cancel_seen = @ \/ (processing /\ nreq > 0),
                          !.cancel_early = @ \/ ( /\ processing
                                                  /\ nreq > 0
                                                  /\ obs.recon = "pending" )]
    /\ last_op' = "step"
    /\ UNCHANGED <<timer, EnvVars, api, nreq, worker, queue>>

\* cancel_processing.
CancelProcessing ==
    /\ cancel_requested' = TRUE
    /\ ui' = UpdateStatus(ui, MsgCancelling, NoPct)
    /\ obs' = [obs EXCEPT !.cancel_seen = @ \/ (processing /\ nreq > 0),
                          !.cancel_early = @ \/ ( /\ processing
                                                  /\ nreq > 0
                                                  /\ obs.recon = "pending" )]
    /\ last_op' = "step"
    /\ UNCHANGED <<processing, timer, EnvVars, api, nreq, worker, queue>>

\* An accepted start that leaves _cancel_requested as it finds it.
CancelFlagKept(c) == c

\* line 56: an accepted start assigns False to _cancel_requested.
CancelFlagAtStart(c) == FALSE

\* A start that does not look at _processing.
StartRejectedNever(p) == FALSE

\* The guard of line 48: `not self.ui or self._processing`; __init__ refuses
\* a missing ui, so self.ui is always set.
StartRejected(p) == p

\* start_background_removal_thread(api_key, mode).
StartBackgroundRemovalThread(api_key, mode) ==
    /\ last_op' = IF processing THEN "start_busy" ELSE "start"
    /\ IF StartRejected(processing)
       THEN UNCHANGED <<UIVars, EnvVars, api, nreq, worker, queue, obs>>
       ELSE IF ~has_drawable
       THEN /\ obs.n_error < MaxRequests
            /\ SetSt(HandleError(St, MsgNoLayer))
            /\ UNCHANGED <<EnvVars, api, nreq, worker, queue>>
       ELSE /\ nreq < MaxRequests
            /\ processing' = TRUE
            /\ cancel_requested' = CancelFlagAtStart(cancel_requested)
            /\ ui' = DisableUI(ui)
            /\ nreq' = nreq + 1
            /\ worker' = [worker EXCEPT ![nreq + 1] =
                            [IdleWorker EXCEPT !.pc = "L69", !.key = api_key,
                                               !.mode = mode]]
            /\ obs' = [NoObs EXCEPT !.key = api_key, !.mode = mode,
                                    !.cancel_before = cancel_requested]
            /\ UNCHANGED <<timer, EnvVars, api, queue>>

Start == \E api_key \in ApiKeys, mode \in Modes :
            StartBackgroundRemovalThread(api_key, mode)

\* on_remove_background, the handler of the remove-background button: a
\* click reaches it only while the button is sensitive.  text is the content
\* of the key entry, dims_ok whether the drawable has positive width and
\* height, selected the model key chosen in model_combo.  The three early exits call show_error directly, which raises;
\* nothing was changed by then.  Past them the settings are stored (without
\* the model, which store_settings then takes as the default), the status
\* label is set, set_processing_state(True) runs and the orchestrator is
\* started with the same drawable.
OnRemoveBackground ==
    /\ ui.sens["remove_background_btn"]
    /\ \E text \in ApiKeys, file_mode \in BOOLEAN, visible \in BOOLEAN,
          dims_ok \in BOOLEAN, selected \in AVAILABLE_MODELS :
          LET api_key == Strip(text)
              mode == IF file_mode THEN "file" ELSE "layer"
              u == SetProcessingState(
                       [ui EXCEPT !.status = MsgPreparingRemoval], TRUE)
          IN IF api_key = "" \/ ~has_drawable \/ ~dims_ok
             THEN /\ last_op' = "click_refused"
                  /\ UNCHANGED <<UIVars, EnvVars, api, nreq, worker, queue,
                                 obs>>
             ELSE /\ last_op' = "click"
                  /\ config' = StoreSettings(config, api_key, mode, visible,
                                             DEFAULT_MODEL)
                  /\ settings' = [AfterStore(settings, api_key, mode,
                                             visible, DEFAULT_MODEL)
                                     EXCEPT !.dialog =
                                        [api_key |-> api_key,
                                         mode |-> mode,
                                         api_key_visible |-> visible,
                                         model |-> selected]]
                  /\ IF StartRejected(processing)
                     THEN /\ ui' = u
                          /\ UNCHANGED <<processing, cancel_requested, nreq,
                                         worker, obs>>
                     ELSE /\ nreq < MaxRequests
                          /\ processing' = TRUE
                          /\ cancel_requested' =
                                 CancelFlagAtStart(cancel_requested)
                          /\ ui' = DisableUI(u)
                          /\ nreq' = nreq + 1
                          /\ worker' = [worker EXCEPT ![nreq + 1] =
                                          [IdleWorker EXCEPT
                                             !.pc = "L69", !.key = api_key,
                                             !.mode = mode]]
                          /\ obs' = [NoObs EXCEPT !.key = api_key,
                                                  !.mode = mode,
                                                  !.from_dialog = TRUE,
                                                  !.cancel_before =
                                                      cancel_requested]
                  /\ UNCHANGED <<timer, has_drawable, replicate_available,
                                 api, queue, proc, layer>>

\* The GLib main loop dispatches the oldest idle callback.
UiUpdateStatus ==
    /\ queue # <<>>
    /\ Head(queue).h = "status"
    /\ ui' = UpdateStatus(ui, Head(queue).msg, Head(queue).pct)
    /\ queue' = Tail(queue)
    /\ last_op' = "step"
    /\ UNCHANGED <<processing, cancel_requested, timer, EnvVars, api, nreq,
                   worker, obs>>

UiHandleCancelled ==
    /\ queue # <<>>
    /\ Head(queue).h = "cancelled"
    /\ SetSt(HandleCancelled(St))
    /\ queue' = Tail(queue)
    /\ last_op' = "step"
    /\ UNCHANGED <<EnvVars, api, nreq, worker>>

UiHandleError ==
    /\ queue # <<>>
    /\ Head(queue).h = "error"
    /\ SetSt(HandleError(St, Head(queue).msg))
    /\ queue' = Tail(queue)
    /\ last_op' = "step"
    /\ UNCHANGED <<EnvVars, api, nreq, worker>>

-----------------------------------------------------------------------------
(* integrator._truncate_layer_name; a string is the sequence of its        *)
(* characters                                                              *)

MAX_LAYER_NAME_LENGTH == 64

\* Bound on the length of the names tried.
MaxNameLen == 66

\* The characters names are made of; a name repeats them in this order
\* from some offset, so that each part of a name differs from the others.
NameChars == <<"a", "b", "c">>
NameOf(n, k) == [i \in 1..n |-> NameChars[((i + k) % Len(NameChars)) + 1]]
LayerNames == {NameOf(n, k) : n \in 0..MaxNameLen, k \in 1..Len(NameChars)}

\* "Background Removed", the name given in place of an empty one.
DefaultLayerName == <<"B", "a", "c", "k", "g", "r", "o", "u", "n", "d", " ",
                      "R", "e", "m", "o", "v", "e", "d">>
Ellipsis == <<".", ".", ".">>

\* A truncation that keeps the end of the name.
TruncateKeepsEnd(name) ==
    IF name = <<>> THEN DefaultLayerName
    ELSE IF Len(name) <= MAX_LAYER_NAME_LENGTH THEN name
    ELSE Ellipsis \o SubSeq(name, Len(name) - (MAX_LAYER_NAME_LENGTH - 3) + 1,
                            Len(name))

\* _truncate_layer_name(name).
TruncateLayerName(name) ==
    IF name = <<>> THEN DefaultLayerName
    ELSE IF Len(name) <= MAX_LAYER_NAME_LENGTH THEN name
    ELSE SubSeq(name, 1, MAX_LAYER_NAME_LENGTH - 3) \o Ellipsis

NoLayerName == [op |-> "none", name |-> <<>>, result |-> <<>>]

-----------------------------------------------------------------------------
(* The plug-in procedure *)

RunModes == {"INTERACTIVE", "NONINTERACTIVE", "WITH_LAST_VALS"}

\* pc: "entry" before run_dream_background_remover is called, "dialog"
\* while dialog.run() blocks, "returned" after the procedure returned.
NoProc == [pc |-> "entry", run_mode |-> "none", status |-> "none",
           response |-> "none",
           succeeded |-> FALSE] \* a success timeout ran while the dialog ran

\* ui.show_success_state: DreamBackgroundRemoverUI defines no such method,
\* so the call of line 146 raises AttributeError.
ShowSuccessRaises == TRUE

\* lines 89-95: dialog.run() returned response; the dialog is destroyed and
\* the response decides the status.
DialogReturns(p, response) ==
    [p EXCEPT !.pc = "returned",
              !.response = response,
              !.status = IF response = "OK" THEN "SUCCESS" ELSE "CANCEL"]

\* close_on_success: with a message the OK response is left to a timer the
\* raising call of line 146 never sets; an OK response ends dialog.run().
CloseOnSuccess(p, message) ==
    IF message # "" /\ ShowSuccessRaises
    THEN p
    ELSE DialogReturns(p, "OK")

\* run_dream_background_remover up to dialog.run(); image: an image was
\* passed, dims_ok: the first drawable has positive width and height,
\* opens: constructing the dialog raised nothing.
RunProcedure(p, run_mode, image, drawable, dims_ok, opens) ==
    LET q == [p EXCEPT !.run_mode = run_mode]
    IN IF run_mode # "INTERACTIVE"
       THEN [q EXCEPT !.pc = "returned", !.status = "SUCCESS"]
       ELSE IF ~image \/ ~drawable \/ ~dims_ok \/ ~opens
       THEN [q EXCEPT !.pc = "returned", !.status = "EXECUTION_ERROR"]
       ELSE [q EXCEPT !.pc = "dialog"]

-----------------------------------------------------------------------------
(* The program as shipped *)

Init ==
    /\ processing = FALSE
    /\ cancel_requested = FALSE
    /\ has_drawable \in BOOLEAN
    /\ replicate_available \in BOOLEAN
    /\ ui = InitUI
    /\ nreq = 0
    /\ worker = [r \in Requests |-> IdleWorker]
    /\ queue = <<>>
    /\ timer = <<>>
    /\ api = IdleApi
    /\ obs = NoObs
    /\ last_op = "init"
    /\ config = AbsentFile
    /\ settings = NoSettings
    /\ proc = NoProc
    /\ layer = NoLayerName

WorkerStep ==
    \E r \in Requests :
        \/ WorkerFirstCheck(r)
        \/ WorkerConstruct(r)
        \/ WorkerPostPreparing(r)
        \/ WorkerSecondCheck(r)
        \/ WorkerCallUnbound(r)
        \/ WorkerExcept(r)

Next ==
    \/ Start
    \/ OnRemoveBackground
    \/ CancelProcessing
    \/ WorkerStep
    \/ UiUpdateStatus
    \/ UiHandleCancelled
    \/ UiHandleError

Spec == Init /\ [][Next]_vars

-----------------------------------------------------------------------------
(* The pipeline with a client call that binds: the worker of the shipped    *)
(* source never gets past line 87, so the code after it (lines 92-99, the  *)
(* result handler, the success timeout) is exercised with the call given   *)
(* a model identifier.  The shipped call stays one of the outcomes.        *)

BoundModel == "bria/remove-background"

\* The orchestrator does not look at how the result was chunked.
PipelineOutputs == OutputsUpTo(1)

\* line 87 with model_name supplied: the body of remove_background starts.
WorkerCallBound(r) ==
    /\ worker[r].pc = "L87"
    /\ api.pc = "idle"
    /\ api' = ApiEnter(r, has_drawable, BoundModel)
    /\ worker' = [worker EXCEPT ![r].pc = "api"]
    /\ last_op' = "step"
    /\ UNCHANGED <<UIVars, EnvVars, nreq, queue, obs>>

\* lines 75-79: progress_callback, called at a checkpoint of the client.
WorkerCheckpoint(r) ==
    /\ worker[r].pc = "api"
    /\ api.r = r
    /\ AtCheckpoint(api)
    /\ api' = ApiCheckpoint(api, ~cancel_requested)
    /\ queue' = IF cancel_requested THEN queue
                ELSE Append(queue,
                            StatusItem(r, CheckpointMsgs[CheckpointOf(api.pc)],
                                       Fractions[CheckpointOf(api.pc)]))
    /\ last_op' = "step"
    /\ UNCHANGED <<UIVars, EnvVars, nreq, worker, obs>>

WorkerApiStep(r) ==
    /\ worker[r].pc = "api"
    /\ api.r = r
    /\ api' \in ApiStepResults(api, PipelineOutputs)
    /\ last_op' = "step"
    /\ UNCHANGED <<UIVars, EnvVars, nreq, worker, queue, obs>>

\* line 87: result_pixbuf, error_msg = ...; the frame of the call is gone.
WorkerApiReturn(r) ==
    /\ worker[r].pc = "api"
    /\ api.r = r
    /\ api.pc = "ret"
    /\ worker' = [worker EXCEPT ![r].pc = "L92", ![r].pixbuf = api.pixbuf,
                                ![r].err = api.err]
    /\ obs' = [obs EXCEPT !.client = IF api.pixbuf.valid THEN "image"
                                     ELSE "none"]
    /\ api' = IdleApi
    /\ last_op' = "step"
    /\ UNCHANGED <<UIVars, EnvVars, nreq, queue>>

\* lines 92-99: the third cancellation check, then the terminal callback.
WorkerAfterCall(r) ==
    /\ worker[r].pc = "L92"
    /\ IF cancel_requested
       THEN PostTerminal(r, CancelledItem(r))
       ELSE IF worker[r].pixbuf.valid
       THEN PostTerminal(r, RemovedItem(r, worker[r].pixbuf, worker[r].mode))
       ELSE PostTerminal(r, ErrorItem(r, IF worker[r].err # ""
                                         THEN worker[r].err
                                         ELSE MsgNoImageData))
    /\ last_op' = "step"
    /\ UNCHANGED <<UIVars, EnvVars, api, nreq>>

UiHandleBackgroundRemoved ==
    /\ queue # <<>>
    /\ Head(queue).h = "removed"
    /\ \E created \in BOOLEAN :
          SetSt(HandleBackgroundRemoved(St, Head(queue).pixbuf,
                                        Head(queue).mode, created))
    /\ queue' = Tail(queue)
    /\ last_op' = "step"
    /\ UNCHANGED <<EnvVars, api, nreq, worker>>

\* The 500 ms timer of _schedule_success_callback fires.
UiSuccessTimeout ==
    /\ timer # <<>>
    /\ SetSt(SuccessTimeout([St EXCEPT !.timer = Tail(@)], Head(timer).msg))
    /\ proc' = [CloseOnSuccess(proc, Head(timer).msg) EXCEPT
                    !.succeeded = @ \/ proc.pc = "dialog"]
    /\ last_op' = "step"
    /\ UNCHANGED <<has_drawable, replicate_available, config, settings, api,
                   nreq, worker, queue, layer>>

WorkerStepBound ==
    \E r \in Requests :
        \/ WorkerFirstCheck(r)
        \/ WorkerConstruct(r)
        \/ WorkerPostPreparing(r)
        \/ WorkerSecondCheck(r)
        \/ WorkerCallUnbound(r)
        \/ WorkerCallBound(r)
        \/ WorkerCheckpoint(r)
        \/ WorkerApiStep(r)
        \/ WorkerApiReturn(r)
        \/ WorkerAfterCall(r)
        \/ WorkerExcept(r)

NextPipeline ==
    \/ Start
    \/ OnRemoveBackground
    \/ CancelProcessing
    \/ WorkerStepBound
    \/ UiUpdateStatus
    \/ UiHandleCancelled
    \/ UiHandleError
    \/ UiHandleBackgroundRemoved
    \/ UiSuccessTimeout

SpecPipeline == Init /\ [][NextPipeline]_vars

-----------------------------------------------------------------------------
(* The procedure the host calls: it opens the dialog on the first drawable *)
(* and returns what the dialog's response decides.                         *)

\* What the procedure itself does not write.
RunVars == <<processing, cancel_requested, has_drawable, replicate_available,
             ui, nreq, worker, queue, timer, api, obs, config, settings,
             layer>>

CallProcedure ==
    /\ proc.pc = "entry"
    /\ \E run_mode \in RunModes, image \in BOOLEAN, dims_ok \in BOOLEAN,
          opens \in BOOLEAN :
          proc' = RunProcedure(proc, run_mode, image, has_drawable, dims_ok,
                               opens)
    /\ last_op' = "run"
    /\ UNCHANGED RunVars

\* on_cancel: the cancel button asks the orchestrator to cancel while a
\* request is processed and closes the dialog otherwise.
OnCancel ==
    \/ /\ processing
       /\ CancelProcessing
    \/ /\ ~processing
       /\ proc' = DialogReturns(proc, "CANCEL")
       /\ last_op' = "run"
       /\ UNCHANGED RunVars

\* The window is closed: dialog.run() returns DELETE_EVENT.
OnDeleteEvent ==
    /\ proc' = DialogReturns(proc, "DELETE_EVENT")
    /\ last_op' = "run"
    /\ UNCHANGED RunVars

\* The dialog's handlers, the workers and the main loop run only while
\* dialog.run() blocks.
DialogRuns == proc.pc = "dialog"

NextProcedure ==
    \/ CallProcedure
    \/ DialogRuns /\ OnRemoveBackground
    \/ DialogRuns /\ OnCancel
    \/ DialogRuns /\ OnDeleteEvent
    \/ DialogRuns /\ WorkerStepBound
    \/ DialogRuns /\ UiUpdateStatus
    \/ DialogRuns /\ UiHandleCancelled
    \/ DialogRuns /\ UiHandleError
    \/ DialogRuns /\ UiHandleBackgroundRemoved
    \/ DialogRuns /\ UiSuccessTimeout

SpecProcedure == Init /\ [][NextProcedure]_vars

-----------------------------------------------------------------------------
(* remove_background on its own, under every callback and environment *)

NextApi ==
    \/ DirectCall
    \/ DirectCheckpoint
    \/ DirectStep

SpecApi == Init /\ [][NextApi]_vars

-----------------------------------------------------------------------------
(* _truncate_layer_name on its own, on any name *)

LayerVars == <<processing, cancel_requested, has_drawable,
               replicate_available, ui, nreq, worker, queue, timer, api, obs,
               config, settings, proc>>

CallTruncateLayerName ==
    /\ \E name \in LayerNames :
          layer' = [op |-> "truncate", name |-> name,
                    result |-> TruncateLayerName(name)]
    /\ last_op' = "layer_name"
    /\ UNCHANGED LayerVars

NextLayerName == CallTruncateLayerName

SpecLayerName == Init /\ [][NextLayerName]_vars

-----------------------------------------------------------------------------
(* store_settings and load_settings on their own, on any file *)

SettingsVars == <<processing, cancel_requested, has_drawable,
                  replicate_available, ui, nreq, worker, queue, timer, api,
                  obs, proc, layer>>

StoredKeys == {"", "r8_key"}
StoredModes == {"layer", "file", "other"}
StoredModels == {"851-labs", "bria", "unknown"}

\* What a file found on disk holds under the keys it has.
FoundValues ==
    {[api_key |-> "r8_key", mode |-> "file", api_key_visible |-> TRUE,
      model |-> "bria"],
     [api_key |-> "r8_key", mode |-> "other", api_key_visible |-> TRUE,
      model |-> "unknown"]}

\* Files the plugin did not write itself: none, one that is no JSON, one an
\* earlier version or an editor left with only some of the keys.
FoundFiles ==
    {AbsentFile, InvalidFile} \cup
    {ObjectFile(keys, d) : keys \in SUBSET SettingKeys, d \in FoundValues}

CallStoreSettings ==
    /\ \E api_key \in StoredKeys, mode \in StoredModes,
          api_key_visible \in BOOLEAN, model \in StoredModels :
          /\ config' = StoreSettings(config, api_key, mode, api_key_visible,
                                     model)
          /\ settings' = AfterStore(settings, api_key, mode,
                                    api_key_visible, model)
    /\ last_op' = "settings"
    /\ UNCHANGED SettingsVars

CallLoadSettings ==
    /\ settings' = [settings EXCEPT !.op = "load",
                                    !.loaded = LoadSettings(config)]
    /\ last_op' = "settings"
    /\ UNCHANGED <<SettingsVars, config>>

\* The file is replaced from outside the plugin.
ConfigFileFound ==
    /\ config' \in FoundFiles
    /\ settings' = [NoSettings EXCEPT !.op = "found"]
    /\ last_op' = "settings"
    /\ UNCHANGED SettingsVars

NextSettings ==
    \/ CallStoreSettings
    \/ CallLoadSettings
    \/ ConfigFileFound

SpecSettings == Init /\ [][NextSettings]_vars

-----------------------------------------------------------------------------
(* Properties *)

\* Nothing of the latest request is left to run: its worker ended and no
\* callback of it is queued or on a timer.
Settled ==
    /\ nreq > 0
    /\ \A r \in Requests : ~Alive(r)
    /\ queue = <<>>
    /\ timer = <<>>

\* Terminal outcomes delivered for the latest request.
Outcomes == obs.n_error + obs.n_success + obs.n_cancelled

ControlsEnabled == \A c \in ThreadControls : ui.sens[c]

\* C1: at most one worker thread is in flight, and _processing stays true
\* for as long as a spawned worker has not posted its terminal callback.
C1_OneWorkerInFlight ==
    /\ Cardinality({r \in Requests : Alive(r)}) <= 1
    /\ (\E r \in Requests : Alive(r)) => processing

\* C1 witness: the second request's worker runs and a further start was
\* attempted meanwhile.
C1_Witness ==
    /\ nreq = 2
    /\ Alive(2)
    /\ last_op = "start_busy"

C3_TerminalThenIdle == Settled => (Outcomes >= 1 /\ ~processing)

\* C4: a request whose worker caught an exception ends Failed with the
\* exception's message when cancellation was not requested, and otherwise
\* ends either that way or Cancelled, with _processing false and the
\* controls enabled again.
C4_ExceptionOutcome ==
    (Settled /\ obs.raised # "") =>
        /\ \/ /\ obs.n_error = 1
              /\ obs.err_msg = obs.raised
              /\ obs.n_cancelled = 0
           \/ /\ obs.n_cancelled = 1
              /\ obs.n_error = 0
              /\ ~processing
              /\ ControlsEnabled
        /\ ~obs.cancel_seen => (obs.n_error = 1 /\ obs.err_msg = obs.raised)

\* What remove_background has done when it stands at checkpoint k.
StepsBefore == << <<>>,
                  <<"export", "stage">>,
                  <<"export", "stage", "run">>,
                  <<"export", "stage", "run">>,
                  <<"export", "stage", "run", "download", "decode">> >>

\* C5: when the progress callback returned False at checkpoint k, for each
\* of the five checkpoints, remove_background returned (None, "Operation
\* cancelled"), invoked no later checkpoint and performed no later step.
C5_CancelAtCheckpoint ==
    (api.pc = "ret" /\ api.false_at > 0) =>
        /\ api.pixbuf = NoPixbuf
        /\ api.err = MsgCancelled
        /\ Len(api.cps) = api.false_at
        /\ api.steps = StepsBefore[api.false_at]

C7_StartWhileProcessingNoop ==
    [][last_op' = "start_busy" =>
          UNCHANGED <<processing, cancel_requested, ui, nreq, worker, queue,
                      timer, api, obs>>]_vars

\* C7 witness: a start was called while a worker was running.
C7_Witness ==
    /\ last_op = "start_busy"
    /\ processing
    /\ \E r \in Requests : Alive(r)

C9_FileRequestSucceeds ==
    ( /\ Settled
      /\ has_drawable
      /\ replicate_available
      /\ ~IsBlank(obs.key)
      /\ obs.mode = "file"
      /\ ~obs.cancel_seen ) => obs.n_success = 1

\* C10: on_error is never invoked for a request after cancel_processing was
\* called during it.
C10_NoErrorAfterCancel == ~obs.late_error

\* C11: after a request started from the dialog ended Failed, every control
\* the dialog disabled when it started the request (key entry, visibility
\* toggle, both mode radios, model combo, remove-background button) is
\* sensitive again.
C11_ControlsSensitiveAfterFailed ==
    (obs.from_dialog /\ obs.n_error >= 1 /\ ~processing) =>
        \A c \in DialogControls : ui.sens[c]

\* C12: every invocation of on_error completed without raising and presented
\* its message: as many messages were shown as on_error was invoked.
C12_ErrorMessageShown == obs.n_shown = obs.n_error

\* The bytes of a response, its chunks taken in the order they arrived.
RECURSIVE InOrder(_)
InOrder(chunks) ==
    IF chunks = <<>> THEN <<>>
    ELSE InOrder(SubSeq(chunks, 1, Len(chunks) - 1)) \o chunks[Len(chunks)]

\* The call has returned and no progress callback answered False or raised.
ReturnedUncancelled ==
    api.pc = "ret" /\ api.false_at = 0 /\ api.raised_at = 0

\* C13: an uncancelled remove_background whose remote response was N >= 1
\* non-empty chunks decoded the in-order concatenation of the chunks, once,
\* and, when that concatenation decodes, returned (decoded image, None).
C13_DecodesConcatenation ==
    ( /\ ReturnedUncancelled
      /\ api.out.kind \in {"list", "stream"}
      /\ api.out.chunks # <<>>
      /\ \A i \in 1..Len(api.out.chunks) : api.out.chunks[i] # <<>> ) =>
        /\ api.steps = <<"export", "stage", "run", "download", "decode">>
        /\ BytesToPixbuf(InOrder(api.out.chunks)).valid =>
               /\ api.pixbuf = BytesToPixbuf(InOrder(api.out.chunks))
               /\ api.err = ""

\* C13 witness: two chunks, the signature in the first, came back as the
\* image they make in that order.
C13_Witness ==
    /\ ReturnedUncancelled
    /\ api.out.chunks = << <<Magic>>, <<0>> >>
    /\ api.pixbuf = [valid |-> TRUE, pixels |-> <<0>>]
    /\ api.err = ""

\* C14 as stated: every output that yields zero chunks, or chunks that
\* concatenate to zero bytes, gives (None, "No image data in API response")
\* when nothing cancelled.
C14_EmptyStreamAsStated ==
    ( /\ ReturnedUncancelled
      /\ api.out.kind # "none"
      /\ InOrder(api.out.chunks) = <<>> ) =>
        (api.pixbuf = NoPixbuf /\ api.err = MsgNoImageInResponse)

\* C14: an uncancelled call whose remote output holds no byte returns no
\* image and "No image data in API response" when the output object is
\* truthy (a stream, or a list with at least one chunk), and "No output
\* received from API" when it is an empty list; neither is the message of a
\* failed decode.
C14_EmptyStream ==
    ( /\ ReturnedUncancelled
      /\ api.out.kind # "none"
      /\ InOrder(api.out.chunks) = <<>> ) =>
        /\ api.pixbuf = NoPixbuf
        /\ api.err = IF Truthy(api.out) THEN MsgNoImageInResponse
                     ELSE MsgNoOutput
        /\ api.err # MsgConvertFailed
        /\ MsgNoImageInResponse # MsgConvertFailed

\* C14 witness: a stream that yielded nothing was answered with the
\* no-image-data message.
C14_Witness ==
    /\ ReturnedUncancelled
    /\ api.out = [kind |-> "stream", chunks |-> <<>>]
    /\ api.err = MsgNoImageInResponse

\* The latest request was started with an empty or all-whitespace key.
BlankKeyRequest == nreq > 0 /\ IsBlank(obs.key)

\* The worker of the latest request never got past the constructor: no
\* export, no staging file, no remote call was made for it.
NoClientCall ==
    /\ worker[nreq].pc \in {"L69", "L73", "L102", "done"}
    /\ api.r # nreq
    /\ obs.client = "pending"

\* C15 as stated: for every blank key the constructor fails with "API key
\* is required" before any client activity, and the request ends Failed
\* with that message.
C15_BlankKeyAsStated ==
    BlankKeyRequest =>
        /\ NoClientCall
        /\ obs.raised # "" => obs.raised = MsgKeyRequired
        /\ Settled => (obs.n_error = 1 /\ obs.err_msg = MsgKeyRequired)

\* C15: with the replicate library present, for every blank key the
\* constructor fails with "API key is required" before any export,
\* staging file or remote call, and a request started with such a key and
\* not cancelled ends with on_error invoked once, with that message.
C15_BlankKey ==
    (BlankKeyRequest /\ replicate_available) =>
        /\ NoClientCall
        /\ obs.raised # "" => obs.raised = MsgKeyRequired
        /\ (Settled /\ ~obs.cancel_seen) =>
               /\ obs.raised = MsgKeyRequired
               /\ obs.n_error = 1
               /\ obs.err_msg = MsgKeyRequired
               /\ obs.n_success = 0

\* C15 witness: a request started with a whitespace key ended Failed with
\* the message of the constructor.
C15_Witness ==
    /\ Settled
    /\ obs.key = "   "
    /\ replicate_available
    /\ obs.n_error = 1
    /\ obs.err_msg = MsgKeyRequired

TerminalLastInQueue ==
    /\ \A i, j \in 1..Len(queue) :
           (i < j /\ queue[i].h # "status") => queue[j].r # queue[i].r
    /\ (nreq > 0 /\ obs.posted # "none") => ~Alive(nreq)

\* C18: the terminal callback is the last update a worker posts: nothing of
\* the same request is queued behind it, the worker has ended once it is
\* posted, a status update is posted only while no terminal callback was,
\* and the interactive thread takes the callbacks from the front of the
\* queue, in the order they were posted.
C18_TerminalIsLast ==
    /\ []TerminalLastInQueue
    /\ [][ /\ (Len(queue') > Len(queue)) =>
               /\ SubSeq(queue', 1, Len(queue)) = queue
               /\ queue'[Len(queue')].h = "status" => obs.posted = "none"
           /\ (Len(queue') < Len(queue)) => queue' = Tail(queue) ]_vars

\* C18 witness: the update of the final checkpoint is queued, and right
\* behind it, last, the result callback of the same request.
C18_Witness ==
    /\ Len(queue) >= 2
    /\ queue[Len(queue)].h = "removed"
    /\ queue[Len(queue) - 1].h = "status"
    /\ queue[Len(queue) - 1].pct = PROGRESS_COMPLETE
    /\ queue[Len(queue) - 1].r = queue[Len(queue)].r

\* C19: a step that takes _cancel_requested from true to false is an
\* accepted start or a run of a terminal handler (_handle_cancelled,
\* _handle_error, success_timeout); a step of a worker thread leaves the
\* flag as it was.
C19_CancelFlagSticky ==
    [][ /\ (cancel_requested /\ ~cancel_requested') =>
              \/ nreq' = nreq + 1
              \/ /\ nreq' = nreq
                 /\ \/ obs'.n_cancelled = obs.n_cancelled + 1
                    \/ obs'.n_error > obs.n_error
                    \/ obs'.n_success = obs.n_success + 1
        /\ (nreq' = nreq /\ worker' # worker) =>
              cancel_requested' = cancel_requested ]_vars

\* C19 witness: the flag set during a request is still set after the worker
\* saw it, posted the cancelled callback and ended; the handler has not run.
C19_Witness ==
    /\ cancel_requested
    /\ obs.cancel_seen
    /\ obs.posted = "cancelled"
    /\ obs.n_cancelled = 0
    /\ ~Alive(nreq)

\* A step that is start_background_removal_thread called while Idle with no
\* drawable bound.
StartWithoutDrawable == last_op' = "start" /\ ~processing /\ ~has_drawable

\* C20 as stated: a start while Idle with no drawable bound is a no-op: no
\* worker, flags and control sensitivity unchanged, on_error and on_success
\* not invoked.
C20_NoDrawableNoopAsStated ==
    [][StartWithoutDrawable =>
          /\ UNCHANGED <<nreq, worker, queue, timer, processing,
                         cancel_requested>>
          /\ ui'.sens = ui.sens
          /\ obs'.n_error = obs.n_error
          /\ obs'.n_success = obs.n_success]_vars

\* C20: a start while Idle with no drawable bound spawns no worker, posts
\* and schedules nothing and leaves _processing false, but it runs
\* _handle_error: _cancel_requested is false afterwards, the five controls
\* of _enable_ui are sensitive and the others as they were, the progress
\* bar is hidden, on_error is invoked once with "No layer available for
\* background removal" and on_success is not invoked.
C20_NoDrawableStart ==
    [][StartWithoutDrawable =>
          /\ UNCHANGED <<nreq, worker, queue, timer, processing>>
          /\ ~cancel_requested'
          /\ \A c \in Controls :
                ui'.sens[c] = (IF c \in ThreadControls THEN TRUE
                               ELSE ui.sens[c])
          /\ ~ui'.progress_visible
          /\ obs'.n_error = obs.n_error + 1
          /\ obs'.err_msg = MsgNoLayer
          /\ obs'.n_success = obs.n_success]_vars

\* C20 witness: the first call of the run was a start with no drawable
\* bound, and on_error was invoked with the no-layer message.
C20_Witness ==
    /\ last_op = "start"
    /\ ~has_drawable
    /\ nreq = 0
    /\ ~processing
    /\ obs.n_error = 1
    /\ obs.err_msg = MsgNoLayer

C22_SuccessOnlyAfterSucceeded ==
    proc.pc = "returned" =>
        /\ proc.status \in {"SUCCESS", "CANCEL", "EXECUTION_ERROR"}
        /\ proc.status = "SUCCESS" => proc.succeeded

C24_NeverRaises ==
    /\ api.pc # "raised"
    /\ api.pc = "ret" =>
           \/ api.pixbuf.valid /\ api.err = ""
           \/ api.pixbuf = NoPixbuf /\ api.err # ""

\* C24 witness: the callback of the last checkpoint raised after the image
\* was decoded; the call returned no image and the message of the outer
\* except clause, and its staging file was removed.
C24_Witness ==
    /\ api.pc = "ret"
    /\ api.raised_at = 5
    /\ api.steps = <<"export", "stage", "run", "download", "decode">>
    /\ api.pixbuf = NoPixbuf
    /\ api.err = MsgUnexpected
    /\ api.temp = "removed"

\* C25: when the export of the drawable gave no bytes, remove_background
\* returned (None, "Failed to export image data"), made no remote call,
\* staged no file and invoked no checkpoint after the first.
C25_ExportFailure ==
    api.exported \notin {"", "bytes"} =>
        /\ api.pc = "ret"
        /\ api.pixbuf = NoPixbuf
        /\ api.err = MsgExportFailed
        /\ api.steps = <<"export">>
        /\ api.out = NoOutput
        /\ api.cps = <<PROGRESS_PREPARE>>
        /\ api.ntemp = 0

\* C25 witness: the export wrote an empty file; the call has returned.
C25_Witness ==
    /\ api.exported = "empty_file"
    /\ api.pc = "ret"
    /\ api.err = MsgExportFailed
    /\ api.exp_temp = "removed"

C27_ProgressPrefix ==
    /\ Len(api.cps) <= 5
    /\ api.cps = SubSeq(<<1, 3, 7, 9, 10>>, 1, Len(api.cps))
    /\ \A i, j \in 1..Len(api.cps) : i < j => api.cps[i] < api.cps[j]
    /\ (api.pc = "ret" /\ api.pixbuf.valid) => Len(api.cps) = 5
    /\ (\E i \in 1..Len(api.cps) : api.cps[i] = PROGRESS_COMPLETE) =>
           \E j \in 1..Len(api.steps) : api.steps[j] = "decode"

\* C27 witness: a call returned an image after reporting the five fractions.
C27_Witness ==
    /\ api.pc = "ret"
    /\ api.pixbuf.valid
    /\ api.err = ""
    /\ api.cps = Fractions

\* C28: an uncancelled call whose remote output is one bytes object that
\* decodes returns the image decoded from those bytes, as it does for a
\* stream yielding the same bytes.
C28_DirectBytesAccepted ==
    ( /\ ReturnedUncancelled
      /\ api.out.kind = "bytes"
      /\ BytesToPixbuf(api.out.chunks[1]).valid ) =>
        /\ api.pixbuf = BytesToPixbuf(api.out.chunks[1])
        /\ api.err = ""

\* C29: whatever the settings file holds, load_settings returns a mode that
\* is "layer" or "file" and a model that is a key of the model table.
C29_LoadedValuesValid ==
    settings.op = "load" =>
        /\ settings.loaded.mode \in Modes
        /\ settings.loaded.model \in AVAILABLE_MODELS

\* C30: when a request is started from the dialog, the settings then on
\* disk are the dialog's API key, output mode, key visibility and selected
\* model key.
C30_PersistedEqualsDialog ==
    last_op = "click" => LoadSettings(config) = settings.dialog

\* C31 as stated: for every layer name the name given to the layer has at
\* most 64 characters; a name of 64 characters or fewer is used unchanged,
\* a longer one is replaced by its first 61 characters followed by "...".
C31_TruncationAsStated ==
    layer.op = "truncate" =>
        /\ Len(layer.result) <= 64
        /\ Len(layer.name) <= 64 => layer.result = layer.name
        /\ Len(layer.name) > 64 =>
               layer.result = SubSeq(layer.name, 1, 61) \o <<".", ".", ".">>

\* C31: the name given to the layer has at most 64 characters; a non-empty
\* name of 64 characters or fewer is used unchanged, a longer one is
\* replaced by its first 61 characters followed by "...", and an empty name
\* is replaced by "Background Removed".
C31_Truncation ==
    layer.op = "truncate" =>
        /\ Len(layer.result) <= 64
        /\ (layer.name # <<>> /\ Len(layer.name) <= 64) =>
               layer.result = layer.name
        /\ Len(layer.name) > 64 =>
               /\ layer.result = SubSeq(layer.name, 1, 61) \o <<".", ".", ".">>
               /\ Len(layer.result) = 64
        /\ layer.name = <<>> =>
               (layer.result = DefaultLayerName /\ layer.result # <<>>)

\* C31 witness: a name of 65 characters was cut to its first 61 characters
\* and the ellipsis.
C31_Witness ==
    /\ layer.op = "truncate"
    /\ Len(layer.name) = 65
    /\ Len(layer.result) = 64
    /\ SubSeq(layer.result, 1, 61) = SubSeq(layer.name, 1, 61)
    /\ SubSeq(layer.result, 62, 64) = <<".", ".", ".">>

\* C32: a cancellation requested before a request was accepted does not
\* reach that request: its worker posts the cancelled callback, its client
\* call is told to stop, and the request ends Cancelled, only if
\* cancel_processing ran after the start was accepted.
C32_NoCancelLeak ==
    nreq > 0 =>
        /\ obs.n_cancelled > 0 => obs.cancel_seen
        /\ obs.posted = "cancelled" => obs.cancel_seen
        /\ obs.recon = "skipped" => obs.cancel_seen
        /\ (api.r = nreq /\ api.false_at > 0) => obs.cancel_seen
        /\ (cancel_requested /\ processing) => obs.cancel_seen

\* C32 witness: cancel_processing had set the flag before the start; the
\* request accepted then was never cancelled and ended with another outcome.
C32_Witness ==
    /\ Settled
    /\ obs.cancel_before
    /\ ~obs.cancel_seen
    /\ obs.n_cancelled = 0
    /\ Outcomes >= 1
    /\ obs.client = "image"

====
